---- MODULE Spec2Model ----
(***************************************************************************)
(* Model of market_dashboard.py: the return calculator                     *)
(* (calculate_returns), the chart helper (calculate_percentage_change) and *)
(* the multi-ticker fallback fetch loop (get_market_data).                 *)
(*                                                                         *)
(* A DataFrame is a record                                                 *)
(*   isDF : whether the object is a pandas DataFrame at all                *)
(*   cols : its column names                                               *)
(*   idx  : "aware" (tz-aware DatetimeIndex), "naive" (tz-naive            *)
(*          DatetimeIndex that tz_localize accepts) or "bad" (reading .tz  *)
(*          or tz_localize raises)                                         *)
(*   rows : the rows in storage order, each [t |-> timestamp,              *)
(*          close |-> float]                                               *)
(* Floats are exact rationals [k |-> "num", n, d] in lowest terms, plus    *)
(* the IEEE specials [k |-> "nan"] and [k |-> "inf"] (n = sign).           *)
(***************************************************************************)
EXTENDS Integers, Sequences, FiniteSets, TLC

\* ---------------------------------------------------------------- bounds
MaxLen == 3        \* rows per input frame

\* ---------------------------------------------------------------- floats
RECURSIVE GCD(_, _)
GCD(a, b) == IF b = 0 THEN a ELSE GCD(b, a % b)

Abs(x) == IF x < 0 THEN -x ELSE x

Sign(x) == IF x < 0 THEN -1 ELSE IF x > 0 THEN 1 ELSE 0

NaN == [k |-> "nan", n |-> 0, d |-> 1]

Inf(s) == [k |-> "inf", n |-> s, d |-> 1]

\* the rational n/d (d # 0) in lowest terms with a positive denominator
Norm(n, d) ==
    LET g == GCD(Abs(n), Abs(d))
    IN  [k |-> "num", n |-> Sign(d) * (n \div g), d |-> Abs(d) \div g]

F(i) == [k |-> "num", n |-> i, d |-> 1]

\* numpy float64 division: x/0 is +-inf, 0/0 is nan, nan propagates
FDiv(a, b) ==
    IF a.k = "nan" \/ b.k = "nan" THEN NaN
    ELSE IF a.k = "inf" THEN (IF b.k = "inf" THEN NaN
                              ELSE Inf(a.n * (IF b.n < 0 THEN -1 ELSE 1)))
    ELSE IF b.k = "inf" THEN F(0)
    ELSE IF b.n = 0 THEN (IF a.n = 0 THEN NaN ELSE Inf(Sign(a.n)))
    ELSE Norm(a.n * b.d, a.d * b.n)

FSub(a, b) ==
    IF a.k = "nan" \/ b.k = "nan" THEN NaN
    ELSE IF a.k = "inf" THEN (IF b.k = "inf" /\ b.n = a.n THEN NaN ELSE a)
    ELSE IF b.k = "inf" THEN Inf(-b.n)
    ELSE Norm(a.n * b.d - b.n * a.d, a.d * b.d)

FMul(a, b) ==
    IF a.k = "nan" \/ b.k = "nan" THEN NaN
    ELSE IF a.k = "inf" \/ b.k = "inf"
         THEN (IF a.n = 0 \/ b.n = 0 THEN NaN ELSE Inf(Sign(a.n) * Sign(b.n)))
    ELSE Norm(a.n * b.n, a.d * b.d)

\* pd.isna on a scalar
isna(x) == x.k = "nan"

\* the value every failure path returns: 0.0
Sentinel == F(0)

\* the change taken relative to the end price
return_value_over_end(start_price, end_price) ==
    FMul(FSub(F(1), FDiv(start_price, end_price)), F(100))

\* (end_price / start_price - 1) * 100
return_value(start_price, end_price) ==
    FMul(FSub(FDiv(end_price, start_price), F(1)), F(100))

\* ---------------------------------------------------------------- inputs
\* timestamps, as days of the year: Jan 1, Jun 1, Jul 1 and Dec 31
Times == {1, 152, 182, 365}

Prices == {NaN, F(0), F(100), F(150), F(200)}

IndexKinds == {"aware", "naive", "bad"}

Distinct(rows) ==
    \A i, j \in 1..Len(rows) : i # j => rows[i].t # rows[j].t

\* every storage order of at most MaxLen points with distinct timestamps
RowSeqs(prices) ==
    {r \in UNION {[1..n -> [t : Times, close : prices]] : n \in 0..MaxLen} :
        Distinct(r)}

NotAFrame == [isDF |-> FALSE, cols |-> {}, idx |-> "bad", rows |-> <<>>]

\* frames with a 'Close' column, frames without one (their rows carry no
\* price), and one object that is not a DataFrame
Frames ==
    {[isDF |-> TRUE, cols |-> {"Close"}, idx |-> i, rows |-> r] :
        i \in IndexKinds, r \in RowSeqs(Prices)}
    \cup {[isDF |-> TRUE, cols |-> c, idx |-> i, rows |-> r] :
        c \in {{}, {"Open"}}, i \in IndexKinds, r \in RowSeqs({NaN})}
    \cup {NotAFrame}

\* a reference date: main passes naive first-of-month dates (here Jan 1,
\* Jun 1, Jul 1); an "aware" one is a value that
\* pd.Timestamp(..).tz_localize rejects
StartDates ==
    {[kind |-> "naive", t |-> t] : t \in {1, 152, 182}}
    \cup {[kind |-> "aware", t |-> 1]}

\* ------------------------------------------------------- pandas helpers
\* DataFrame.empty: some axis has length 0
empty(data) == Len(data.rows) = 0 \/ data.cols = {}

\* pd.Timestamp(start_date).tz_localize('America/New_York')
tz_localize_ts(s) == [exc |-> s.kind # "naive", t |-> s.t]

\* if data.index.tz is None: data.index = data.index.tz_localize(...)
\* assigns to the caller's object; reading .tz or localizing may raise
localize_index(data) ==
    IF data.idx = "bad" THEN [exc |-> TRUE, data |-> data]
    ELSE IF data.idx = "naive"
         THEN [exc |-> FALSE, data |-> [data EXCEPT !.idx = "aware"]]
    ELSE [exc |-> FALSE, data |-> data]

RECURSIVE Insert(_, _)
Insert(row, sorted) ==
    IF sorted = <<>> THEN <<row>>
    ELSE IF row.t <= Head(sorted).t THEN <<row>> \o sorted
    ELSE <<Head(sorted)>> \o Insert(row, Tail(sorted))

\* sort_index left out: the rows stay in storage order
sort_index_noop(rows) == rows

RECURSIVE sort_index(_)
\* DataFrame.sort_index(): a new frame, rows ascending by timestamp
sort_index(rows) ==
    IF rows = <<>> THEN <<>>
    ELSE Insert(Head(rows), sort_index(Tail(rows)))

\* data.index <= start_date: the entries on or before the date
mask_before(rows, t) == [i \in 1..Len(rows) |-> rows[i].t <= t]

\* data.index > start_date
mask_strict(rows, t) == [i \in 1..Len(rows) |-> rows[i].t > t]

\* data.index >= start_date
mask(rows, t) == [i \in 1..Len(rows) |-> rows[i].t >= t]

any(m) == \E i \in 1..Len(m) : m[i]

RECURSIVE loc(_, _)
\* data.loc[mask]: the rows whose mask entry is True, in order
loc(rows, m) ==
    IF rows = <<>> THEN <<>>
    ELSE (IF Head(m) THEN <<Head(rows)>> ELSE <<>>) \o loc(Tail(rows), Tail(m))

\* .iloc[i]['Close'] for i = 0 (first) or i = -1 (last); IndexError when
\* there is no such row
iloc_close(rows, i) ==
    IF rows = <<>> THEN [exc |-> TRUE, close |-> NaN]
    ELSE [exc |-> FALSE,
          close |-> IF i = 0 THEN rows[1].close ELSE rows[Len(rows)].close]

\* -------------------------------------------------- calculate_returns
\* what a call gives back: whether an exception left the function, the
\* number returned, and the caller's frame object after the call
Returned(v, data) == [exc |-> FALSE, val |-> v, data |-> data]

\* an except clause that re-raises
except_reraise(data) == [exc |-> TRUE, val |-> Sentinel, data |-> data]

\* every `except ...: return 0.0` clause
except_return(data) == [exc |-> FALSE, val |-> Sentinel, data |-> data]

\* the guards without the zero check
prices_unusable_nozero(start_price, end_price) ==
    isna(start_price) \/ isna(end_price)

\* the NaN and zero guards in front of the division
prices_unusable(start_price, end_price) ==
    \/ isna(start_price) \/ isna(end_price)
    \/ start_price = F(0)

calculate_returns(data, start_date) ==
    IF ~data.isDF THEN Returned(Sentinel, data)
    ELSE IF empty(data) THEN Returned(Sentinel, data)
    ELSE IF "Close" \notin data.cols THEN Returned(Sentinel, data)
    ELSE
    LET sd == tz_localize_ts(start_date) IN
    IF sd.exc THEN except_return(data)
    ELSE
    LET li == localize_index(data) IN
    IF li.exc THEN except_return(li.data)
    ELSE
    LET sorted == sort_index(li.data.rows)
        m == mask(sorted, sd.t)
    IN
    IF ~any(m) THEN Returned(Sentinel, li.data)
    ELSE
    LET sp == iloc_close(loc(sorted, m), 0)
        ep == iloc_close(sorted, -1)
    IN
    IF sp.exc \/ ep.exc THEN except_return(li.data)
    ELSE IF prices_unusable(sp.close, ep.close)
         THEN Returned(Sentinel, li.data)
    ELSE Returned(return_value(sp.close, ep.close), li.data)

\* ---------------------------------------- calculate_percentage_change
NoSeries == <<>>

\* an empty pd.Series()
EmptySeries(data) == [exc |-> FALSE, ser |-> NoSeries, data |-> data]

\* the guards without the zero check
start_unusable_nozero(start_price) == isna(start_price)

\* the NaN and zero guards on the located start price
start_unusable(start_price) == isna(start_price) \/ start_price = F(0)

\* the change taken relative to the first row instead of the located start
pct_series_first(rows, start_price) ==
    [i \in 1..Len(rows) |->
        [t |-> rows[i].t,
         val |-> FMul(FSub(FDiv(rows[i].close, rows[1].close), F(1)), F(100))]]

\* (data['Close'] / start_price - 1) * 100, one value per row
pct_series(rows, start_price) ==
    [i \in 1..Len(rows) |->
        [t |-> rows[i].t,
         val |-> FMul(FSub(FDiv(rows[i].close, start_price), F(1)), F(100))]]

\* start_date arrives already localized (create_performance_chart does it)
calculate_percentage_change(data, start_t) ==
    IF ~data.isDF THEN EmptySeries(data)
    ELSE IF empty(data) THEN EmptySeries(data)
    ELSE IF "Close" \notin data.cols THEN EmptySeries(data)
    ELSE
    LET li == localize_index(data) IN
    IF li.exc THEN EmptySeries(li.data)
    ELSE
    LET sorted == sort_index(li.data.rows)
        m == mask(sorted, start_t)
    IN
    IF ~any(m) THEN EmptySeries(li.data)
    ELSE
    LET sp == iloc_close(loc(sorted, m), 0) IN
    IF sp.exc THEN EmptySeries(li.data)
    ELSE IF start_unusable(sp.close) THEN EmptySeries(li.data)
    ELSE [exc |-> FALSE, ser |-> pct_series(sorted, sp.close), data |-> li.data]

\* create_performance_chart adds a trace for a series that is not empty
\* and whose last value is not NaN; the annotation shows that last value
trace_added(ser) == ser # NoSeries /\ ~isna(ser[Len(ser)].val)

last_value(ser) == ser[Len(ser)].val

\* ------------------------------------------------------ get_market_data
\* the instruments in the order they are fetched, and their ticker lists
Instruments == <<"Russell 3000", "Barclays US Aggregate", "MSCI ACWI ex US">>

Tickers == <<(<<"VTI", "SPY", "IVV">>), (<<"BND", "AGG">>), (<<"ACWX", "VXUS">>)>>

max_retries == 2

\* a fetched frame must have more than this many rows
MinRows == 10

\* what get_market_data looks at in a frame: its type, columns and length;
\* id tells the fetch that produced it (0: a pd.DataFrame() made locally)
EmptyFrame == [isDF |-> TRUE, cols |-> {}, len |-> 0, id |-> 0]

RowCounts == {0, 1, MinRows, MinRows + 1}

\* what Ticker.history can hand back, besides raising: a DataFrame
Fetched(id) ==
    {[isDF |-> TRUE, cols |-> c, len |-> n, id |-> id] :
        c \in {{}, {"Open"}, {"Close"}}, n \in RowCounts}

frame_empty(f) == f.len = 0 \/ f.cols = {}

\* the outer loop is never left early
outer_break_never(f) == FALSE

\* not data.empty and len(data) > 10, inside the attempt loop
inner_break(f) == ~frame_empty(f) /\ f.len > MinRows

\* the same test after the attempt loop, on whatever the variable holds
outer_break(f) == ~frame_empty(f) /\ f.len > MinRows

\* ------------------------------------------------- main: reference dates
\* the years the clock may show (neither is a leap year)
Years == {2025, 2026}

DaysIn == <<31, 28, 31, 30, 31, 30, 31, 31, 30, 31, 30, 31>>

\* what datetime.now() may give, to the day
Dates ==
    {dt \in [y : Years, m : 1..12, d : 1..31] : dt.d <= DaysIn[dt.m]}

NoDate == [y |-> 0, m |-> 0, d |-> 0]

\* datetime(year, month, day)
datetime(y, m, d) == [y |-> y, m |-> m, d |-> d]

\* the quarter number without the "- 1"
quarter_of_off(month) == month \div 3 + 1

\* quarter = (current_date.month - 1) // 3 + 1
quarter_of(month) == (month - 1) \div 3 + 1

\* the order of datetime values
DateLE(a, b) ==
    \/ a.y < b.y
    \/ a.y = b.y /\ a.m < b.m
    \/ a.y = b.y /\ a.m = b.m /\ a.d <= b.d

RECURSIVE DaysBefore(_)
DaysBefore(m) == IF m = 1 THEN 0 ELSE DaysBefore(m - 1) + DaysIn[m - 1]

\* the timestamp of a reference date, as a day of its year
DayOfYear(dt) == DaysBefore(dt.m) + dt.d

\* data.loc[data.index >= start_date].iloc[0] on the sorted frame: the
\* entry a return starts from, <<>> when there is none
start_entry(rows, t) ==
    LET sorted == sort_index(rows)
        sel == loc(sorted, mask(sorted, t))
    IN  IF sel = <<>> THEN <<>> ELSE <<sel[1]>>

\* ------------------------------------------------------------ the state
VARIABLES
    data,        \* the caller's frame object
    start_date,  \* the reference date the caller passes
    arg,         \* the frame as it was when the latest call began
    out,         \* what the latest call gave back
    prev,        \* what the latest earlier calculate_returns call gave back
    pc,          \* get_market_data: "idle", "loop", "validate", "returned"
    inst,        \* the instrument being fetched (index into Instruments)
    tk,          \* the ticker being tried (index into its ticker list)
    attempt,     \* the attempt number, from 0
    frames,      \* russell_data, agg_data, acwx_data
    st_errors,   \* the st.error messages shown, as <<instrument, text>>
    fetchLog,    \* the history() calls issued so far, in order
    dpc,         \* main: "idle", "now", "dates", "located"
    current_date,
    year_start,
    month_start,
    quarter_start,
    series,      \* the rows of the frame main holds for one instrument
    ytd_start,   \* the entry each period's return starts from
    qtd_start,
    mtd_start

calcVars == <<data, start_date, arg, out, prev>>

fetchVars == <<pc, inst, tk, attempt, frames, st_errors, fetchLog>>

dateVars == <<dpc, current_date, year_start, month_start, quarter_start,
              series, ytd_start, qtd_start, mtd_start>>

vars == <<calcVars, fetchVars, dateVars>>

\* main is not running
DateIdle ==
    /\ dpc = "idle"
    /\ current_date = NoDate
    /\ year_start = NoDate /\ month_start = NoDate /\ quarter_start = NoDate
    /\ series = <<>>
    /\ ytd_start = <<>> /\ qtd_start = <<>> /\ mtd_start = <<>>

NoCall == [op |-> "none", exc |-> FALSE, val |-> Sentinel, ser |-> NoSeries]

Init ==
    /\ data \in Frames
    /\ start_date \in StartDates
    /\ arg = data
    /\ out = NoCall
    /\ prev = NoCall
    /\ pc = "idle"
    /\ inst = 1 /\ tk = 1 /\ attempt = 0
    /\ frames = [i \in 1..3 |-> EmptyFrame]
    /\ st_errors = {}
    /\ fetchLog = <<>>
    /\ DateIdle

\* the caller evaluates calculate_returns(data, start_date)
CallReturns ==
    /\ LET r == calculate_returns(data, start_date) IN
        /\ out' = [op |-> "returns", exc |-> r.exc, val |-> r.val,
                   ser |-> NoSeries]
        /\ data' = r.data
    /\ arg' = data
    /\ prev' = (IF out.op = "returns" THEN out ELSE prev)
    /\ UNCHANGED <<start_date, fetchVars, dateVars>>

\* create_performance_chart localizes year_start and, when that succeeds,
\* evaluates calculate_percentage_change(data, year_start)
CallPct ==
    /\ ~tz_localize_ts(start_date).exc
    /\ LET r == calculate_percentage_change(data, tz_localize_ts(start_date).t) IN
        /\ out' = [op |-> "pct", exc |-> r.exc, val |-> Sentinel,
                   ser |-> r.ser]
        /\ data' = r.data
    /\ arg' = data
    /\ prev' = (IF out.op = "returns" THEN out ELSE prev)
    /\ UNCHANGED <<start_date, fetchVars, dateVars>>

Next == CallReturns \/ CallPct

Spec == Init /\ [][Next]_vars

\* get_market_data is entered: the three frames start as pd.DataFrame()
FetchInit ==
    /\ data = NotAFrame
    /\ start_date = [kind |-> "naive", t |-> 1]
    /\ arg = data
    /\ out = NoCall
    /\ prev = NoCall
    /\ pc = "loop"
    /\ inst = 1 /\ tk = 1 /\ attempt = 0
    /\ frames = [i \in 1..3 |-> EmptyFrame]
    /\ st_errors = {}
    /\ fetchLog = <<>>
    /\ DateIdle

\* the instrument's block is left: on to the next one, or return
NextInstrument ==
    IF inst < Len(Instruments)
    THEN /\ pc' = "loop" /\ inst' = inst + 1 /\ tk' = 1 /\ attempt' = 0
    ELSE /\ pc' = "returned" /\ UNCHANGED <<inst, tk, attempt>>

\* the attempt loop of the current ticker is over: the test after it
\* either raises (the variable holds no DataFrame; the instrument's
\* `except` resets it), leaves the ticker loop, or moves to the next ticker
AfterAttempts(f) ==
    IF ~f.isDF
    THEN /\ frames' = [frames EXCEPT ![inst] = EmptyFrame]
         /\ NextInstrument
    ELSE /\ frames' = [frames EXCEPT ![inst] = f]
         /\ IF outer_break(f) \/ tk = Len(Tickers[inst])
            THEN pc' = "validate" /\ UNCHANGED <<inst, tk, attempt>>
            ELSE /\ tk' = tk + 1 /\ attempt' = 0
                 /\ UNCHANGED <<pc, inst>>

\* after one attempt with the variable now holding f: break, retry or
\* finish the ticker
AttemptDone(f, broke) ==
    IF ~broke /\ attempt < max_retries - 1
    THEN /\ attempt' = attempt + 1
         /\ frames' = [frames EXCEPT ![inst] = f]
         /\ UNCHANGED <<pc, inst, tk>>
    ELSE AfterAttempts(f)

Logged(f, raised) ==
    [inst |-> inst, tk |-> tk, att |-> attempt,
     big  |-> ~raised /\ f.isDF /\ ~frame_empty(f) /\ f.len > MinRows,
     good |-> ~raised /\ f.isDF /\ ~frame_empty(f) /\ f.len > MinRows
              /\ "Close" \in f.cols]

\* one attempt: history() raises, the variable keeps its old value
FetchRaises ==
    /\ pc = "loop"
    /\ fetchLog' = Append(fetchLog, Logged(EmptyFrame, TRUE))
    /\ AttemptDone(frames[inst], FALSE)
    /\ UNCHANGED <<st_errors, calcVars, dateVars>>

\* one attempt: history() returns f, which is assigned before it is
\* tested; testing something that is no DataFrame raises inside the try
FetchReturns ==
    /\ pc = "loop"
    /\ \E f \in Fetched(Len(fetchLog) + 1) :
        /\ fetchLog' = Append(fetchLog, Logged(f, FALSE))
        /\ AttemptDone(f, f.isDF /\ inner_break(f))
    /\ UNCHANGED <<st_errors, calcVars, dateVars>>

\* the checks after the ticker loop
Validate ==
    /\ pc = "validate"
    /\ LET f == frames[inst] IN
        IF ~f.isDF
        THEN /\ frames' = [frames EXCEPT ![inst] = EmptyFrame]
             /\ UNCHANGED st_errors
        ELSE IF frame_empty(f)
        THEN /\ st_errors' = st_errors \cup {<<inst, "Failed to fetch">>}
             /\ UNCHANGED frames
        ELSE IF "Close" \notin f.cols
        THEN /\ st_errors' = st_errors \cup {<<inst, "invalid">>}
             /\ UNCHANGED frames
        ELSE UNCHANGED <<frames, st_errors>>
    /\ NextInstrument
    /\ UNCHANGED <<fetchLog, calcVars, dateVars>>

FetchNext == FetchRaises \/ FetchReturns \/ Validate

FetchSpec == FetchInit /\ [][FetchNext]_vars

\* main has read the clock and holds one instrument's frame
DateInit ==
    /\ data = NotAFrame
    /\ start_date = [kind |-> "naive", t |-> 1]
    /\ arg = data
    /\ out = NoCall
    /\ prev = NoCall
    /\ pc = "idle"
    /\ inst = 1 /\ tk = 1 /\ attempt = 0
    /\ frames = [i \in 1..3 |-> EmptyFrame]
    /\ st_errors = {}
    /\ fetchLog = <<>>
    /\ dpc = "now"
    /\ current_date \in Dates
    /\ year_start = NoDate /\ month_start = NoDate /\ quarter_start = NoDate
    /\ series \in RowSeqs({F(100)})
    /\ ytd_start = <<>> /\ qtd_start = <<>> /\ mtd_start = <<>>

\* the reference dates are computed from the current date
ComputeDates ==
    /\ dpc = "now"
    /\ year_start' = datetime(current_date.y, 1, 1)
    /\ month_start' = datetime(current_date.y, current_date.m, 1)
    /\ quarter_start' =
          datetime(current_date.y, (quarter_of(current_date.m) - 1) * 3 + 1, 1)
    /\ dpc' = "dates"
    /\ UNCHANGED <<current_date, series, ytd_start, qtd_start, mtd_start,
                   calcVars, fetchVars>>

\* the three returns of one instrument are calculated: each looks up the
\* first entry on or after its reference date
LocateStarts ==
    /\ dpc = "dates"
    /\ ytd_start' = start_entry(series, DayOfYear(year_start))
    /\ mtd_start' = start_entry(series, DayOfYear(month_start))
    /\ qtd_start' = start_entry(series, DayOfYear(quarter_start))
    /\ dpc' = "located"
    /\ UNCHANGED <<current_date, year_start, month_start, quarter_start,
                   series, calcVars, fetchVars>>

DateNext == ComputeDates \/ LocateStarts

DateSpec == DateInit /\ [][DateNext]_vars

\* ============================================================ properties
Range(f) == {f[i] : i \in DOMAIN f}

HasClose(d) == d.isDF /\ "Close" \in d.cols

\* the frame and the date pass validation and localization
Usable(d, s) ==
    /\ HasClose(d) /\ d.rows # <<>>
    /\ d.idx # "bad" /\ s.kind = "naive"

NoneOnOrAfter(d, s) == \A r \in Range(d.rows) : r.t < s.t

\* the entry with the least timestamp among those on or after the date
StartRow(d, s) ==
    CHOOSE r \in Range(d.rows) :
        /\ r.t >= s.t
        /\ \A q \in Range(d.rows) : q.t >= s.t => r.t <= q.t

\* the entry with the greatest timestamp
EndRow(d) ==
    CHOOSE r \in Range(d.rows) : \A q \in Range(d.rows) : q.t <= r.t

Located(d, s) == Usable(d, s) /\ ~NoneOnOrAfter(d, s)

\* (Jan 1, 100), (Jun 1, 150), (Dec 31, 200)
ExampleRows ==
    <<[t |-> 1, close |-> F(100)], [t |-> 152, close |-> F(150)],
      [t |-> 365, close |-> F(200)]>>

\* C1: calculate_returns never lets an exception reach its caller; it
\* always returns a number, and that number is 0.0 whenever validation,
\* localization or the lookup of a start entry fails.
C1_NeverRaises ==
    out.op = "returns" =>
        /\ ~out.exc
        /\ out.val.k = "num"
        /\ (~Located(arg, start_date) => out.val = Sentinel)

\* an index that cannot be localized: the exception is raised and caught
C1_Witness ==
    /\ out.op = "returns" /\ HasClose(arg) /\ arg.rows # <<>>
    /\ arg.idx = "bad" /\ start_date.kind = "naive"
    /\ ~out.exc /\ out.val = Sentinel

\* C2: with non-NaN prices and a nonzero start price the result is
\* (end / start - 1) * 100, start being the first entry on or after the
\* date and end the last entry; the series (Jan 1, 100), (Jun 1, 150),
\* (Dec 31, 200) gives 100.0 for Jan 1 and 0.0 for Jul 1.
C2_ReturnFormula ==
    out.op = "returns" =>
        /\ ( /\ Located(arg, start_date)
             /\ \A r \in Range(arg.rows) : ~isna(r.close)
             /\ StartRow(arg, start_date).close # F(0)
             => LET sp == StartRow(arg, start_date).close.n
                    ep == EndRow(arg).close.n
                IN  out.val = Norm((ep - sp) * 100, sp) )
        /\ ( Usable(arg, start_date) /\ arg.rows = ExampleRows =>
               /\ (start_date.t = 1 => out.val = F(100))
               /\ (start_date.t = 182 => out.val = F(0)) )

C2_Witness ==
    /\ out.op = "returns" /\ Usable(arg, start_date)
    /\ arg.rows = ExampleRows /\ start_date.t = 1 /\ out.val = F(100)

\* C3: calculate_returns returns 0.0 whenever no entry is on or after the
\* reference date: the empty series, a frame without 'Close', and a series
\* whose timestamps all precede the date.
C3_NoEntrySentinel ==
    ( /\ out.op = "returns"
      /\ \/ arg.rows = <<>>
         \/ ~HasClose(arg)
         \/ NoneOnOrAfter(arg, start_date) )
    => (~out.exc /\ out.val = Sentinel)

\* a priced series that ends before the date
C3_Witness ==
    /\ out.op = "returns" /\ Usable(arg, start_date)
    /\ NoneOnOrAfter(arg, start_date)
    /\ \E r \in Range(arg.rows) : r.close = F(100)
    /\ EndRow(arg).close = F(200)
    /\ out.val = Sentinel

\* C4: the result is never NaN nor an infinity, and it is 0.0 whenever
\* the located start price is NaN, the last price is NaN, or the located
\* start price is 0.
C4_NaNZeroGuard ==
    out.op = "returns" =>
        /\ out.val.k = "num"
        /\ ( /\ Located(arg, start_date)
             /\ \/ isna(StartRow(arg, start_date).close)
                \/ isna(EndRow(arg).close)
                \/ StartRow(arg, start_date).close = F(0)
             => out.val = Sentinel )

\* a zero start price under a nonzero last price
C4_Witness ==
    /\ out.op = "returns" /\ Located(arg, start_date)
    /\ StartRow(arg, start_date).close = F(0)
    /\ EndRow(arg).close = F(200)
    /\ out.val = Sentinel

RECURSIVE Ascending(_)
\* the rows by increasing timestamp: the earliest one, then the rest
Ascending(rows) ==
    IF rows = <<>> THEN <<>>
    ELSE LET k == CHOOSE i \in 1..Len(rows) :
                      \A j \in 1..Len(rows) : rows[i].t <= rows[j].t
         IN  <<rows[k]>> \o
             Ascending([i \in 1..(Len(rows) - 1) |->
                            IF i < k THEN rows[i] ELSE rows[i + 1]])

\* C5: whatever the order of the rows, the result is the one the
\* ascending series gives (so all orders agree), and a second call on the
\* same frame returns what the first returned.
C5_OrderIndependent ==
    out.op = "returns" =>
        /\ calculate_returns([arg EXCEPT !.rows = Ascending(arg.rows)],
                             start_date).val = out.val
        /\ (prev.op = "returns" => out.val = prev.val)

\* a second call on a frame given out of order, with a real return
C5_Witness ==
    /\ out.op = "returns" /\ prev.op = "returns"
    /\ arg.rows # Ascending(arg.rows)
    /\ out.val # Sentinel

\* the start price cannot be determined
NoStartPrice(d, s) ==
    \/ ~Located(d, s)
    \/ isna(StartRow(d, s).close)
    \/ StartRow(d, s).close = F(0)

\* C6: calculate_percentage_change returns the empty series exactly when
\* the start price cannot be determined, and a non-empty series otherwise.
C6_EmptyWhenNoStart ==
    out.op = "pct" =>
        /\ ~out.exc
        /\ (NoStartPrice(arg, start_date) <=> out.ser = NoSeries)

\* a zero start price in front of priced rows
C6_Witness ==
    /\ out.op = "pct" /\ Located(arg, start_date)
    /\ StartRow(arg, start_date).close = F(0)
    /\ EndRow(arg).close = F(200)
    /\ out.ser = NoSeries

\* C9: neither function changes the frame object the caller passed.
C9_NoMutation == out.op # "none" => data = arg

\* the positions in the log of the fetches made for instrument i
FetchesOf(i) == {k \in 1..Len(fetchLog) : fetchLog[k].inst = i}

\* every attempt made for instrument i raised or gave an empty frame, a
\* frame of MinRows rows or fewer, or a frame without 'Close'
AllFailed(i) ==
    /\ FetchesOf(i) # {}
    /\ \A k \in FetchesOf(i) : ~fetchLog[k].good

\* no attempt for instrument i gave a frame of more than MinRows rows
NoneBig(i) ==
    /\ FetchesOf(i) # {}
    /\ \A k \in FetchesOf(i) : ~fetchLog[k].big

\* C7: when every attempt for an instrument failed, the series returned
\* for it is the empty series, never the rejected result of an attempt.
C7_AllFailedEmpty ==
    pc = "returned" =>
        \A i \in 1..Len(Instruments) :
            AllFailed(i) => frame_empty(frames[i])

\* C8: when no attempt for an instrument gave more than MinRows rows, an
\* st.error naming the instrument has been shown by the time of return.
C8_FailureShown ==
    pc = "returned" =>
        \A i \in 1..Len(Instruments) :
            NoneBig(i) => \E e \in st_errors : e[1] = i

\* C10: fetches go in ticker order with at most max_retries attempts per
\* ticker, the next ticker is tried only after the current one's attempts
\* all failed, nothing is fetched for an instrument after an attempt gave
\* a non-empty frame of more than MinRows rows, that frame is the one
\* returned, and an instrument costs at most Len(tickers) * max_retries
\* fetches (14 for the three).
C10_FetchOrder ==
    /\ \A i \in 1..Len(Instruments) :
          /\ Cardinality(FetchesOf(i)) <= Len(Tickers[i]) * max_retries
          /\ \A k \in FetchesOf(i) :
                /\ fetchLog[k].tk \in 1..Len(Tickers[i])
                /\ fetchLog[k].att \in 0..(max_retries - 1)
                /\ IF k - 1 \in FetchesOf(i)
                   THEN /\ ~fetchLog[k - 1].big
                        /\ IF fetchLog[k - 1].att < max_retries - 1
                           THEN /\ fetchLog[k].tk = fetchLog[k - 1].tk
                                /\ fetchLog[k].att = fetchLog[k - 1].att + 1
                           ELSE /\ fetchLog[k].tk = fetchLog[k - 1].tk + 1
                                /\ fetchLog[k].att = 0
                   ELSE fetchLog[k].tk = 1 /\ fetchLog[k].att = 0
                /\ (fetchLog[k].big =>
                      /\ \A j \in FetchesOf(i) : j <= k
                      /\ (pc = "returned" => frames[i].id = k))
    /\ \A k \in 1..Len(fetchLog) :
          k > 1 => fetchLog[k - 1].inst <= fetchLog[k].inst
    /\ Len(fetchLog) <= 14

\* the first instrument got its frame from the second attempt on its
\* second ticker, after three failures
C10_Witness ==
    /\ pc = "returned"
    /\ Cardinality(FetchesOf(1)) = 4
    /\ fetchLog[4].big /\ fetchLog[4].tk = 2 /\ fetchLog[4].att = 1
    /\ frames[1].id = 4 /\ frames[1].len = MinRows + 1

\* C11: with a usable start price, calculate_percentage_change returns one
\* value per row of the whole sorted series, rows before the start date
\* included, each (price / start_price - 1) * 100 against the one located
\* start price; the value at the located start row is 0.
C11_WholeSeries ==
    (out.op = "pct" /\ ~NoStartPrice(arg, start_date)) =>
        LET asc == Ascending(arg.rows)
            sp == StartRow(arg, start_date)
        IN  /\ Len(out.ser) = Len(arg.rows)
            /\ \A i \in 1..Len(asc) :
                  /\ out.ser[i].t = asc[i].t
                  /\ out.ser[i].val =
                        IF isna(asc[i].close) THEN NaN
                        ELSE Norm((asc[i].close.n - sp.close.n) * 100,
                                  sp.close.n)
                  /\ (asc[i].t = sp.t => out.ser[i].val = F(0))

\* a row dated before the start date is kept, with a nonzero change
C11_Witness ==
    /\ out.op = "pct" /\ ~NoStartPrice(arg, start_date)
    /\ Len(arg.rows) = 3 /\ Len(out.ser) = 3
    /\ out.ser[1].t < start_date.t
    /\ out.ser[1].val = F(-50)
    /\ out.ser[2].val = F(0)

\* C12: on the same frame and start date, when the chart adds a trace the
\* annotated last value of the percentage series equals what
\* calculate_returns gave, and when the percentage series is empty
\* calculate_returns gave 0.0.
C12_ChartMatchesMetric ==
    (out.op = "pct" /\ prev.op = "returns") =>
        /\ (trace_added(out.ser) => last_value(out.ser) = prev.val)
        /\ (out.ser = NoSeries => prev.val = Sentinel)

\* a trace whose annotation is a real, nonzero return
C12_Witness ==
    /\ out.op = "pct" /\ prev.op = "returns"
    /\ trace_added(out.ser)
    /\ last_value(out.ser) = F(100) /\ prev.val = F(100)

\* C13: year_start <= quarter_start <= month_start <= current_date, all in
\* the current year; quarter_start is day 1 of month 1, 4, 7 or 10, the
\* first month of the quarter holding the current month; so the entry the
\* YTD return starts from is no later than the QTD one, which is no later
\* than the MTD one.
C13_ReferenceDates ==
    dpc \in {"dates", "located"} =>
        /\ DateLE(year_start, quarter_start)
        /\ DateLE(quarter_start, month_start)
        /\ DateLE(month_start, current_date)
        /\ year_start.y = current_date.y
        /\ quarter_start.y = current_date.y
        /\ month_start.y = current_date.y
        /\ quarter_start.d = 1
        /\ quarter_start.m \in {1, 4, 7, 10}
        /\ current_date.m \in quarter_start.m .. (quarter_start.m + 2)
        /\ (dpc = "located" =>
              /\ (qtd_start # <<>> =>
                    ytd_start # <<>> /\ ytd_start[1].t <= qtd_start[1].t)
              /\ (mtd_start # <<>> =>
                    qtd_start # <<>> /\ qtd_start[1].t <= mtd_start[1].t))

\* a day in September: the quarter starts on Jul 1 and the three returns
\* start from three different entries
C13_Witness ==
    /\ dpc = "located"
    /\ current_date.m = 9 /\ current_date.d = 15
    /\ quarter_start.m = 7
    /\ ytd_start # <<>> /\ qtd_start # <<>> /\ mtd_start # <<>>
    /\ ytd_start[1].t = 1 /\ qtd_start[1].t = 182 /\ mtd_start[1].t = 365

====
